---- MODULE Spec2Model ----
(***************************************************************************)
(* A model of the rotating file logger of utils/logger.go: the Logger      *)
(* (config, logger, currentDay, logFile, mutex), the log directory it      *)
(* writes to, the constructor with its retention cleanup, the Log path    *)
(* (checkRotation, rotateLogFile, the write through the slog logger),     *)
(* Close, and the ContextLogger field merge.                               *)
(*                                                                         *)
(* Time is a counter of clock ticks; TicksPerDay ticks make a calendar    *)
(* day.  time.Now().Format("2006-01-02") is the day of the tick and       *)
(* time.Now().Format("2006-01-02_15-04-05") the day with the tick of the  *)
(* day: a stamp is the record [d, t], with t = NoStamp for the plain      *)
(* date.  A file name is the record [pre, d, t, ext], so that             *)
(* "app-<stamp>.log" is [pre |-> "app", d, t, ext |-> ".log"].            *)
(***************************************************************************)
EXTENDS Integers, Sequences, FiniteSets, TLC

(* ------------------------------ bounds --------------------------------- *)
MaxTime == 2
TicksPerDay == 2
MaxCalls == 3
MaxConcCalls == 2
MaxLevelCalls == 1
SizeLimit == 2
MaxCloses == 1
MaxOpenFailures == 1
MaxKeep == 2

(* --------------------------- program values ---------------------------- *)
NilFile == 0
NoStamp == -1
SlogLevelDebug == -4
SlogLevelInfo == 0
SlogLevelWarn == 4
SlogLevelError == 8

DebugLevel == "debug"
InfoLevel == "info"
WarnLevel == "warn"
ErrorLevel == "error"
\* any LogLevel string that is none of the four constants
OtherLevel == "trace"

LogLevel == {DebugLevel, InfoLevel, WarnLevel, ErrorLevel, OtherLevel}
NamedLevels == {DebugLevel, InfoLevel, WarnLevel, ErrorLevel}

Procs == {"p1", "p2"}
NoProc == "none"
NoErr == ""

VARIABLES
    config,      \* LoggerConfig: MaxFileSize, MaxFiles, Level
    now,         \* the clock read by time.Now()
    dir,         \* the log directory: file name -> [isDir, mtime, content]
    fds,         \* every file handle the Logger opened: [name, open]
    logFile,     \* Logger.logFile: an index of fds, or NilFile
    logger,      \* Logger.logger: the handle its slog handler writes to
    currentDay,  \* Logger.currentDay: the stamp of the last rotation
    mutex,       \* Logger.mutex: [w: the writer or NoProc, r: the readers]
    loc,         \* per caller: position in Log/Close, arguments, locals, result
    ncalls,      \* Log calls started so far
    hist,        \* what happened so far: [closes, openFailures]
    ctor,        \* NewLoggerWithConfig: its outcome and what its cleanup did
    merged       \* ContextLogger: its fields and the last call it forwarded

vars == <<config, now, dir, fds, logFile, logger, currentDay, mutex, loc,
          ncalls, hist, ctor, merged>>

(* ------------------------------ helpers -------------------------------- *)
Day(t) == t \div TicksPerDay
TimeOfDay(t) == t % TicksPerDay

\* FormatDate with the layout of the timestamped name
FormatDate_WithTime(t) == [d |-> Day(t), t |-> TimeOfDay(t)]

\* time.Now().Format("2006-01-02")
FormatDate(t) == [d |-> Day(t), t |-> NoStamp]
\* time.Now().Format("2006-01-02_15-04-05")
FormatDateTime(t) == [d |-> Day(t), t |-> TimeOfDay(t)]
\* the zero value "" of Logger.currentDay
EmptyStamp == [d |-> NoStamp, t |-> NoStamp]

\* filepath.Join(LogDir, fmt.Sprintf("app-%s.log", today)), relative to LogDir
LogFileName(today) == [pre |-> "app", d |-> today.d, t |-> today.t, ext |-> ".log"]

RECURSIVE SumSize(_)
SumSize(s) == IF s = <<>> THEN 0 ELSE Head(s).sz + SumSize(Tail(s))

\* os.File.Stat: fails on a closed handle; Size() is the length of the file
StatOk(f, h) == f[h].open
StatSize(dv, f, h) ==
    IF f[h].name \in DOMAIN dv THEN SumSize(dv[f[h].name].content) ELSE 0

(* -------------------------- cleanupOldLogs ----------------------------- *)
\* filepath.Ext(info.Name())
Ext(name) == name.ext

\* the place of a name in the order of os.ReadDir (sorted by file name):
\* "app-<d>.log" < "app-<d>_<t>.log" < "app-<d+1>.log" < "archive.log"
\* < "notes.txt"
NameKey(name) ==
    CASE name.pre = "app"     -> name.d * (TicksPerDay + 1) + name.t + 1
      [] name.pre = "archive" -> (MaxTime + 1) * (TicksPerDay + 1)
      [] OTHER                -> (MaxTime + 1) * (TicksPerDay + 1) + 1

RECURSIVE ReadDir(_, _)
\* os.ReadDir: the entries of `names`, sorted by file name
ReadDir(dv, names) ==
    IF names = {} THEN <<>>
    ELSE LET first == CHOOSE n \in names :
                        \A m \in names : NameKey(n) <= NameKey(m)
         IN <<[name |-> first, isDir |-> dv[first].isDir,
               mtime |-> dv[first].mtime]>>
            \o ReadDir(dv, names \ {first})

\* LogFilesOf without the test of the extension and of IsDir
LogFilesOf_Everything(entries) == entries

\* logger.go 178-190: the entries that are no directory and end in ".log"
LogFilesOf(entries) ==
    SelectSeq(entries, LAMBDA e : ~e.isDir /\ Ext(e.name) = ".log")

\* After with Before for After
After_Before(a, b) == a.mtime < b.mtime

\* logger.go 195: logFiles[i].ModTime().After(logFiles[j].ModTime())
After(a, b) == a.mtime > b.mtime

Swap(s, i, j) == [s EXCEPT ![i] = s[j], ![j] = s[i]]

RECURSIVE SortInner(_, _, _)
\* logger.go 194-198, with i and j counted from 1
SortInner(s, i, j) ==
    IF j > Len(s) THEN s
    ELSE SortInner(IF After(s[i], s[j]) THEN Swap(s, i, j) ELSE s, i, j + 1)

RECURSIVE SortOuter(_, _)
\* logger.go 193-199
SortOuter(s, i) ==
    IF i > Len(s) - 1 THEN s
    ELSE SortOuter(SortInner(s, i, i + 1), i + 1)

SortByModTime(logFiles) == SortOuter(logFiles, 1)

\* logger.go 202-209: the names os.Remove is called on, in order
Excess(cfg, logFiles) ==
    IF Len(logFiles) > cfg.MaxFiles
    THEN [i \in 1..(Len(logFiles) - cfg.MaxFiles) |-> logFiles[i].name]
    ELSE <<>>

Range(s) == {s[i] : i \in DOMAIN s}
Without(dv, names) == [n \in DOMAIN dv \ names |-> dv[n]]

\* cleanupOldLogs returning at the first os.Remove that fails
cleanupOldLogs_StopAtFailure(cfg, dv, readDirOk, undeletable) ==
    IF cfg.MaxFiles <= 0
    THEN [err |-> NoErr, dir |-> dv, attempted |-> <<>>, deleted |-> {}]
    ELSE IF ~readDirOk
    THEN [err |-> "readdir", dir |-> dv, attempted |-> <<>>, deleted |-> {}]
    ELSE LET logFiles == SortByModTime(LogFilesOf(ReadDir(dv, DOMAIN dv)))
             excess == Excess(cfg, logFiles)
             failing == {i \in DOMAIN excess : excess[i] \in undeletable}
             last == IF failing = {} THEN Len(excess)
                     ELSE CHOOSE i \in failing : \A j \in failing : i <= j
             tried == SubSeq(excess, 1, last)
             gone == Range(tried) \ undeletable
         IN [err |-> IF failing = {} THEN NoErr ELSE "remove",
             dir |-> Without(dv, gone), attempted |-> tried,
             deleted |-> gone]

\* logger.go 167-212.  readDirOk: os.ReadDir succeeds; undeletable: the names
\* os.Remove fails on.  The result: the error returned, the directory left,
\* the removals attempted and the names removed.
cleanupOldLogs(cfg, dv, readDirOk, undeletable) ==
    IF cfg.MaxFiles <= 0
    THEN [err |-> NoErr, dir |-> dv, attempted |-> <<>>, deleted |-> {}]
    ELSE IF ~readDirOk
    THEN [err |-> "readdir", dir |-> dv, attempted |-> <<>>, deleted |-> {}]
    ELSE LET logFiles == SortByModTime(LogFilesOf(ReadDir(dv, DOMAIN dv)))
             excess == Excess(cfg, logFiles)
             gone == Range(excess) \ undeletable
         IN [err |-> NoErr, dir |-> Without(dv, gone), attempted |-> excess,
             deleted |-> gone]

(* --------------------------- rotateLogFile ----------------------------- *)
\* RotateTarget with the size test made before the test of the day
RotateTarget_SizeBeforeDay(cfg, cd, lf, f, dv, t) ==
    IF lf # NilFile /\ cfg.MaxFileSize > 0
       /\ ~(StatOk(f, lf) /\ StatSize(dv, f, lf) < cfg.MaxFileSize)
    THEN [rotate |-> TRUE, today |-> FormatDateTime(t)]
    ELSE IF cd = FormatDate(t) /\ lf # NilFile
    THEN [rotate |-> FALSE, today |-> FormatDate(t)]
    ELSE [rotate |-> TRUE, today |-> FormatDate(t)]

\* logger.go 88-101: whether rotateLogFile goes on to open a file, and the
\* stamp it names the file with.  A failed Stat (closed handle) falls through
\* to the "file is too large" branch.
RotateTarget(cfg, cd, lf, f, dv, t) ==
    IF cd = FormatDate(t) /\ lf # NilFile
    THEN IF cfg.MaxFileSize > 0
         THEN IF StatOk(f, lf) /\ StatSize(dv, f, lf) < cfg.MaxFileSize
              THEN [rotate |-> FALSE, today |-> FormatDate(t)]
              ELSE [rotate |-> TRUE, today |-> FormatDateTime(t)]
         ELSE [rotate |-> FALSE, today |-> FormatDate(t)]
    ELSE [rotate |-> TRUE, today |-> FormatDate(t)]

\* CloseExisting without the Close
CloseExisting_Skip(f, lf) == f

\* logger.go 103-106: l.logFile.Close() when l.logFile != nil
CloseExisting(f, lf) ==
    IF lf # NilFile THEN [f EXCEPT ![lf].open = FALSE] ELSE f

\* OpenAppend with O_TRUNC for O_APPEND
OpenAppend_Truncate(dv, name, t) ==
    [n \in DOMAIN dv \cup {name} |->
        IF n = name THEN [isDir |-> FALSE, mtime |-> t, content |-> <<>>]
        ELSE dv[n]]

\* os.OpenFile(name, O_CREATE|O_WRONLY|O_APPEND): an existing file is kept as
\* it is, a missing one is created empty
OpenAppend(dv, name, t) ==
    IF name \in DOMAIN dv THEN dv
    ELSE dv @@ (name :> [isDir |-> FALSE, mtime |-> t, content |-> <<>>])

\* the open can succeed only where the name is not a directory
CanOpen(dv, name) == ~(name \in DOMAIN dv /\ dv[name].isDir)

(* ------------------------------ levels --------------------------------- *)
\* getSlogLevel without the case of DebugLevel
getSlogLevel_NoDebug(level) ==
    CASE level = InfoLevel  -> SlogLevelInfo
      [] level = WarnLevel  -> SlogLevelWarn
      [] level = ErrorLevel -> SlogLevelError
      [] OTHER              -> SlogLevelInfo

\* logger.go 151-164
getSlogLevel(level) ==
    CASE level = DebugLevel -> SlogLevelDebug
      [] level = InfoLevel  -> SlogLevelInfo
      [] level = WarnLevel  -> SlogLevelWarn
      [] level = ErrorLevel -> SlogLevelError
      [] OTHER              -> SlogLevelInfo

\* logger.go 268-279: the slog method Log calls for a level
CallLevel(level) ==
    CASE level = InfoLevel  -> SlogLevelInfo
      [] level = WarnLevel  -> SlogLevelWarn
      [] level = ErrorLevel -> SlogLevelError
      [] level = DebugLevel -> SlogLevelDebug
      [] OTHER              -> SlogLevelInfo

\* slog's handler emits a record whose level is at least HandlerOptions.Level
HandlerEnabled(cfg, level) == CallLevel(level) >= getSlogLevel(cfg.Level)

(* ---------------------------- checkRotation ---------------------------- *)
\* NeedsRotation with > for >=
NeedsRotation_Above(cfg, cd, lf, f, dv, t) ==
    \/ cd # FormatDate(t)
    \/ /\ cfg.MaxFileSize > 0
       /\ lf # NilFile
       /\ StatOk(f, lf)
       /\ StatSize(dv, f, lf) > cfg.MaxFileSize

\* logger.go 217-230: needsRotation
NeedsRotation(cfg, cd, lf, f, dv, t) ==
    \/ cd # FormatDate(t)
    \/ /\ cfg.MaxFileSize > 0
       /\ lf # NilFile
       /\ StatOk(f, lf)
       /\ StatSize(dv, f, lf) >= cfg.MaxFileSize

(* ------------------------------- mutex --------------------------------- *)
FreeMutex == [w |-> NoProc, r |-> {}]
CanRLock(m) == m.w = NoProc
CanLock(m) == m.w = NoProc /\ m.r = {}

(* --------------------------- callers' state ---------------------------- *)
\* pc: the position; op: the call ("log", "close"); id, lvl, sz: the record
\* of a Log call; day0, sink0, open0, full0, closed0: the day, l.logFile,
\* whether it was open, whether its file had reached MaxFileSize and whether
\* Close had returned, all at the time of the call; to: the stamp
\* rotateLogFile chose; lg: the local `logger`; err: the error returned;
\* wrote: the handle that took the record; seen: l.logFile when checkRotation
\* found that a rotation is needed
IdleLoc ==
    [pc |-> "idle", op |-> "none", id |-> 0, lvl |-> InfoLevel, sz |-> 0,
     day0 |-> 0, sink0 |-> NilFile, full0 |-> FALSE,
     open0 |-> FALSE, closed0 |-> FALSE, to |-> EmptyStamp, lg |-> NilFile,
     err |-> NoErr, wrote |-> NilFile, seen |-> NilFile]

\* Log is entered (logger.go 253): the arguments, and what held at the call
LogBegin(p, lvls, sizes, maxCalls) ==
    /\ ctor.state = "live"
    /\ loc[p].pc = "idle"
    /\ ncalls < maxCalls
    /\ \E lvl \in lvls, sz \in sizes :
         loc' = [loc EXCEPT ![p] =
                   [IdleLoc EXCEPT !.pc = "checkRotation", !.op = "log",
                        !.id = ncalls + 1, !.lvl = lvl, !.sz = sz,
                        !.day0 = Day(now), !.sink0 = logFile,
                        !.full0 = (logFile # NilFile
                                   /\ config.MaxFileSize > 0
                                   /\ StatSize(dir, fds, logFile) >= config.MaxFileSize),
                        !.open0 = (logFile # NilFile /\ fds[logFile].open),
                        !.closed0 = (hist.closes > 0)]]
    /\ ncalls' = ncalls + 1
    /\ UNCHANGED <<config, now, dir, fds, logFile, logger, currentDay, mutex,
                   hist, ctor, merged>>

\* checkRotation, logger.go 216: l.mutex.RLock()
CheckRotationRLock(p) ==
    /\ loc[p].pc = "checkRotation"
    /\ CanRLock(mutex)
    /\ mutex' = [mutex EXCEPT !.r = @ \cup {p}]
    /\ loc' = [loc EXCEPT ![p].pc = "needsRotation"]
    /\ UNCHANGED <<config, now, dir, fds, logFile, logger, currentDay, ncalls,
                   hist, ctor, merged>>

\* CheckRotation with rotateLogFile called before the RUnlock
CheckRotation_KeepRLock(p) ==
    /\ loc[p].pc = "needsRotation"
    /\ IF NeedsRotation(config, currentDay, logFile, fds, dir, now)
       THEN /\ loc' = [loc EXCEPT ![p].pc = "rotateLock", ![p].seen = logFile]
            /\ UNCHANGED mutex
       ELSE /\ loc' = [loc EXCEPT ![p].pc = "readLogger"]
            /\ mutex' = [mutex EXCEPT !.r = @ \ {p}]
    /\ UNCHANGED <<config, now, dir, fds, logFile, logger, currentDay, ncalls,
                   hist, ctor, merged>>

\* checkRotation, logger.go 217-236: the check, RUnlock, and the branch
CheckRotation(p) ==
    /\ loc[p].pc = "needsRotation"
    /\ mutex' = [mutex EXCEPT !.r = @ \ {p}]
    /\ loc' = IF NeedsRotation(config, currentDay, logFile, fds, dir, now)
              THEN [loc EXCEPT ![p].pc = "rotateLock", ![p].seen = logFile]
              ELSE [loc EXCEPT ![p].pc = "readLogger"]
    /\ UNCHANGED <<config, now, dir, fds, logFile, logger, currentDay, ncalls,
                   hist, ctor, merged>>

\* rotateLogFile, logger.go 85: l.mutex.Lock()
RotateLock(p) ==
    /\ loc[p].pc = "rotateLock"
    /\ CanLock(mutex)
    /\ mutex' = [mutex EXCEPT !.w = p]
    /\ loc' = [loc EXCEPT ![p].pc = "rotateCheck"]
    /\ UNCHANGED <<config, now, dir, fds, logFile, logger, currentDay, ncalls,
                   hist, ctor, merged>>

\* rotateLogFile, logger.go 88-106: the re-check under the lock; either the
\* return (and the deferred Unlock) or the close of the existing file
RotateCheck(p) ==
    /\ loc[p].pc = "rotateCheck"
    /\ LET tgt == RotateTarget(config, currentDay, logFile, fds, dir, now) IN
         IF tgt.rotate
         THEN /\ fds' = CloseExisting(fds, logFile)
              /\ loc' = [loc EXCEPT ![p].pc = "rotateOpen", ![p].to = tgt.today]
              /\ UNCHANGED mutex
         ELSE /\ mutex' = FreeMutex
              /\ loc' = [loc EXCEPT ![p].pc = "readLogger",
                                     ![p].seen = NilFile]
              /\ UNCHANGED fds
    /\ UNCHANGED <<config, now, dir, logFile, logger, currentDay, ncalls,
                   hist, ctor, merged>>

\* RotateOpen with cleanupOldLogs run after the new file is opened
RotateOpen_WithCleanup(p, maxFailures) ==
    /\ loc[p].pc = "rotateOpen"
    /\ LET name == LogFileName(loc[p].to) IN
       \/ /\ CanOpen(dir, name)
          /\ dir' = cleanupOldLogs(config, OpenAppend(dir, name, now),
                                   TRUE, {}).dir
          /\ fds' = Append(fds, [name |-> name, open |-> TRUE])
          /\ logFile' = Len(fds) + 1
          /\ logger' = Len(fds) + 1
          /\ currentDay' = loc[p].to
          /\ loc' = [loc EXCEPT ![p].pc = "readLogger", ![p].seen = NilFile]
          /\ UNCHANGED hist
       \/ /\ hist.openFailures < maxFailures
          /\ loc' = [loc EXCEPT ![p].pc = "idle", ![p].err = "open",
                                 ![p].to = EmptyStamp, ![p].seen = NilFile]
          /\ hist' = [hist EXCEPT !.openFailures = @ + 1]
          /\ UNCHANGED <<dir, fds, logFile, logger, currentDay>>
    /\ mutex' = FreeMutex
    /\ UNCHANGED <<config, now, ncalls, ctor, merged>>

\* RotateOpen where Log goes on after a failed open instead of returning
\* the error
RotateOpen_ErrorIgnored(p, maxFailures) ==
    /\ loc[p].pc = "rotateOpen"
    /\ LET name == LogFileName(loc[p].to) IN
       \/ /\ CanOpen(dir, name)
          /\ dir' = OpenAppend(dir, name, now)
          /\ fds' = Append(fds, [name |-> name, open |-> TRUE])
          /\ logFile' = Len(fds) + 1
          /\ logger' = Len(fds) + 1
          /\ currentDay' = loc[p].to
          /\ loc' = [loc EXCEPT ![p].pc = "readLogger", ![p].seen = NilFile]
          /\ UNCHANGED hist
       \/ /\ hist.openFailures < maxFailures
          /\ loc' = [loc EXCEPT ![p].pc = "readLogger", ![p].seen = NilFile]
          /\ hist' = [hist EXCEPT !.openFailures = @ + 1]
          /\ UNCHANGED <<dir, fds, logFile, logger, currentDay>>
    /\ mutex' = FreeMutex
    /\ UNCHANGED <<config, now, ncalls, ctor, merged>>

\* rotateLogFile, logger.go 108-147: the open, the new slog logger, the
\* assignments and the deferred Unlock; when the open fails, the error is
\* what Log returns (logger.go 254-256)
RotateOpen(p, maxFailures) ==
    /\ loc[p].pc = "rotateOpen"
    /\ LET name == LogFileName(loc[p].to) IN
       \/ /\ CanOpen(dir, name)
          /\ dir' = OpenAppend(dir, name, now)
          /\ fds' = Append(fds, [name |-> name, open |-> TRUE])
          /\ logFile' = Len(fds) + 1
          /\ logger' = Len(fds) + 1
          /\ currentDay' = loc[p].to
          /\ loc' = [loc EXCEPT ![p].pc = "readLogger", ![p].seen = NilFile]
          /\ UNCHANGED hist
       \/ /\ hist.openFailures < maxFailures
          /\ loc' = [loc EXCEPT ![p].pc = "idle", ![p].err = "open",
                                 ![p].to = EmptyStamp, ![p].seen = NilFile]
          /\ hist' = [hist EXCEPT !.openFailures = @ + 1]
          /\ UNCHANGED <<dir, fds, logFile, logger, currentDay>>
    /\ mutex' = FreeMutex
    /\ UNCHANGED <<config, now, ncalls, ctor, merged>>

\* Log, logger.go 260-262: logger := l.logger under the shared lock
ReadLogger(p) ==
    /\ loc[p].pc = "readLogger"
    /\ CanRLock(mutex)
    /\ loc' = [loc EXCEPT ![p].pc = "write", ![p].lg = logger,
                           ![p].to = EmptyStamp]
    /\ UNCHANGED <<config, now, dir, fds, logFile, logger, currentDay, mutex,
                   ncalls, hist, ctor, merged>>

\* a write through a handle: appended to the file when the handle is open,
\* an error that slog drops when it is closed
WriteRecord(dv, f, h, rec, t) ==
    IF f[h].open /\ f[h].name \in DOMAIN dv
    THEN [dv EXCEPT ![f[h].name].content = Append(@, rec),
                    ![f[h].name].mtime = t]
    ELSE dv

\* Log, logger.go 264-281: the nil check and the write through `logger`,
\* with no lock held
Write(p) ==
    /\ loc[p].pc = "write"
    /\ IF loc[p].lg = NilFile
       THEN /\ loc' = [loc EXCEPT ![p].pc = "idle", ![p].lg = NilFile,
                           ![p].err = "not initialized"]
            /\ UNCHANGED dir
       ELSE IF HandlerEnabled(config, loc[p].lvl)
       THEN /\ dir' = WriteRecord(dir, fds, loc[p].lg,
                                  [id |-> loc[p].id, sz |-> loc[p].sz], now)
            /\ loc' = [loc EXCEPT ![p].pc = "idle", ![p].lg = NilFile,
                           ![p].wrote = IF fds[loc[p].lg].open
                                        THEN loc[p].lg ELSE NilFile]
       ELSE /\ loc' = [loc EXCEPT ![p].pc = "idle", ![p].lg = NilFile]
            /\ UNCHANGED dir
    /\ UNCHANGED <<config, now, fds, logFile, logger, currentDay, mutex,
                   ncalls, hist, ctor, merged>>

\* the Close calls that were entered and have not returned
ClosesRunning == {q \in Procs : loc[q].pc \in {"closeLock", "close"}}

\* Close is entered (logger.go 313)
CloseBegin(p) ==
    /\ ctor.state = "live"
    /\ loc[p].pc = "idle"
    /\ hist.closes + Cardinality(ClosesRunning) < MaxCloses
    /\ loc' = [loc EXCEPT ![p] =
                 [IdleLoc EXCEPT !.pc = "closeLock", !.op = "close"]]
    /\ UNCHANGED <<config, now, dir, fds, logFile, logger, currentDay, mutex,
                   ncalls, hist, ctor, merged>>

\* Close, logger.go 314: l.mutex.Lock()
CloseLock(p) ==
    /\ loc[p].pc = "closeLock"
    /\ CanLock(mutex)
    /\ mutex' = [mutex EXCEPT !.w = p]
    /\ loc' = [loc EXCEPT ![p].pc = "close"]
    /\ UNCHANGED <<config, now, dir, fds, logFile, logger, currentDay, ncalls,
                   hist, ctor, merged>>

\* Close, logger.go 317-320, and the deferred Unlock
Close(p) ==
    /\ loc[p].pc = "close"
    /\ fds' = CloseExisting(fds, logFile)
    /\ loc' = [loc EXCEPT ![p].pc = "idle",
                   ![p].err = IF logFile # NilFile /\ ~fds[logFile].open
                              THEN "already closed" ELSE NoErr]
    /\ hist' = [hist EXCEPT !.closes = @ + 1]
    /\ mutex' = FreeMutex
    /\ UNCHANGED <<config, now, dir, logFile, logger, currentDay, ncalls,
                   ctor, merged>>

\* the clock advances
Tick ==
    /\ now < MaxTime
    /\ now' = now + 1
    /\ UNCHANGED <<config, dir, fds, logFile, logger, currentDay, mutex, loc,
                   ncalls, hist, ctor, merged>>

(* ---------------------------- ContextLogger ---------------------------- *)
\* a field map is a function from its keys to their values; a nil map has
\* no key
FieldKeys == {"service", "req"}
FieldValues == {"api", "override", "1"}
FieldMaps == UNION {[ks -> FieldValues] : ks \in SUBSET FieldKeys}

\* logger.go 334-336 and 339-341: for k, v := range src { dst[k] = v }
CopyInto(dst, src) ==
    [k \in DOMAIN dst \cup DOMAIN src |->
        IF k \in DOMAIN src THEN src[k] ELSE dst[k]]

\* mergeFields with the two loops in the other order
mergeFields_BaseWins(fields, additional) ==
    CopyInto(CopyInto(<<>>, additional), fields)

\* logger.go 330-344
mergeFields(fields, additional) ==
    CopyInto(CopyInto(<<>>, fields), additional)

NoContext ==
    [fields |-> <<>>, additional |-> <<>>, forwarded |-> <<>>,
     lvl |-> "none"]

\* Logger.With, logger.go 305-310: a ContextLogger holding `fields`
With ==
    \E fields \in FieldMaps :
      /\ merged' = [NoContext EXCEPT !.fields = fields]
      /\ UNCHANGED <<config, now, dir, fds, logFile, logger, currentDay,
                     mutex, loc, ncalls, hist, ctor>>

\* ContextLogger.Info/Warn/Error/Debug, logger.go 347-364: the call of the
\* Logger method of the same level with the merged fields
ContextLog ==
    \E lvl \in NamedLevels, additional \in FieldMaps :
      /\ merged' = [merged EXCEPT !.additional = additional,
                        !.forwarded = mergeFields(merged.fields, additional),
                        !.lvl = lvl]
      /\ UNCHANGED <<config, now, dir, fds, logFile, logger, currentDay,
                     mutex, loc, ncalls, hist, ctor>>

(* ------------------------ NewLoggerWithConfig -------------------------- *)
\* state: "new" before the call, "live" when it returned a Logger, "failed"
\* when it returned an error; mkdirOk, openOk: whether os.MkdirAll and
\* os.OpenFile succeeded; initial, opened: the directory at the call and
\* when cleanupOldLogs started; attempted, deleted: the calls of os.Remove
\* and the names they removed
NotConstructed(dv) ==
    [state |-> "new", err |-> NoErr, mkdirOk |-> TRUE, openOk |-> TRUE,
     cleanupErr |-> NoErr, initial |-> dv, opened |-> dv,
     attempted |-> <<>>, deleted |-> {}]

\* Construct with the error of rotateLogFile ignored
Construct_IgnoreOpenError(cfg, dv, t, mkdirOk, openOk, readDirOk, undeletable) ==
    LET tgt == RotateTarget(cfg, EmptyStamp, NilFile, <<>>, dv, t)
        name == LogFileName(tgt.today)
        canOpen == openOk /\ CanOpen(dv, name)
        opened == IF canOpen THEN OpenAppend(dv, name, t) ELSE dv
        cleanup == cleanupOldLogs(cfg, opened, readDirOk, undeletable)
    IN IF ~mkdirOk
       THEN [ctor |-> [NotConstructed(dv) EXCEPT !.state = "failed",
                           !.err = "mkdir", !.mkdirOk = FALSE,
                           !.openOk = FALSE],
             dir |-> dv, fds |-> <<>>, logFile |-> NilFile,
             logger |-> NilFile, currentDay |-> EmptyStamp]
       ELSE [ctor |-> [state |-> "live", err |-> NoErr, mkdirOk |-> TRUE,
                       openOk |-> canOpen,
                       cleanupErr |-> cleanup.err, initial |-> dv,
                       opened |-> opened, attempted |-> cleanup.attempted,
                       deleted |-> cleanup.deleted],
             dir |-> cleanup.dir,
             fds |-> IF canOpen THEN <<[name |-> name, open |-> TRUE]>>
                     ELSE <<>>,
             logFile |-> IF canOpen THEN 1 ELSE NilFile,
             logger |-> IF canOpen THEN 1 ELSE NilFile,
             currentDay |-> IF canOpen THEN tgt.today ELSE EmptyStamp]

\* logger.go 59-81, as what it leaves: the outcome, the directory, the
\* handles and the fields of the Logger.  mkdirOk: os.MkdirAll succeeds;
\* openOk: os.OpenFile succeeds.
Construct(cfg, dv, t, mkdirOk, openOk, readDirOk, undeletable) ==
    LET tgt == RotateTarget(cfg, EmptyStamp, NilFile, <<>>, dv, t)
        name == LogFileName(tgt.today)
        opened == OpenAppend(dv, name, t)
        cleanup == cleanupOldLogs(cfg, opened, readDirOk, undeletable)
        canOpen == openOk /\ CanOpen(dv, name)
        failed(e) ==
            [ctor |-> [NotConstructed(dv) EXCEPT !.state = "failed", !.err = e,
                           !.mkdirOk = mkdirOk,
                           !.openOk = mkdirOk /\ canOpen],
             dir |-> dv, fds |-> <<>>, logFile |-> NilFile,
             logger |-> NilFile, currentDay |-> EmptyStamp]
    IN IF ~mkdirOk THEN failed("mkdir")
       ELSE IF ~canOpen THEN failed("open")
       ELSE [ctor |-> [state |-> "live", err |-> NoErr, mkdirOk |-> TRUE,
                       openOk |-> TRUE,
                       cleanupErr |-> cleanup.err, initial |-> dv,
                       opened |-> opened, attempted |-> cleanup.attempted,
                       deleted |-> cleanup.deleted],
             dir |-> cleanup.dir,
             fds |-> <<[name |-> name, open |-> TRUE]>>,
             logFile |-> 1, logger |-> 1, currentDay |-> tgt.today]

NewLoggerWithConfig ==
    /\ ctor.state = "new"
    /\ \E mkdirOk \in BOOLEAN :
       \E openOk \in IF mkdirOk THEN BOOLEAN ELSE {TRUE} :
       \E readDirOk \in IF mkdirOk /\ openOk THEN BOOLEAN ELSE {TRUE} :
       \E undeletable \in IF mkdirOk /\ openOk /\ readDirOk
                           THEN SUBSET {n \in DOMAIN dir : Ext(n) = ".log"}
                           ELSE {{}} :
         LET r == Construct(config, dir, now, mkdirOk, openOk, readDirOk,
                            undeletable)
         IN /\ ctor' = r.ctor
            /\ dir' = r.dir
            /\ fds' = r.fds
            /\ logFile' = r.logFile
            /\ logger' = r.logger
            /\ currentDay' = r.currentDay
    /\ UNCHANGED <<config, now, mutex, loc, ncalls, hist, merged>>

(* --------------------- a constructed Logger in use --------------------- *)
\* what the log file of the day holds when the Logger is constructed
PreRecord == [id |-> 0, sz |-> SizeLimit]

\* The state NewLoggerWithConfig leaves (logger.go 59-81) when it is called
\* at time 0 on a directory that holds at most the log file of the day.
InitLive(sizes, lvls) ==
    /\ config \in [MaxFileSize : sizes, MaxFiles : {0}, Level : lvls]
    /\ now = 0
    /\ \E c \in {<<>>, <<PreRecord>>} :
         dir = (LogFileName(FormatDate(0)) :>
                  [isDir |-> FALSE, mtime |-> 0, content |-> c])
    /\ fds = <<[name |-> LogFileName(FormatDate(0)), open |-> TRUE]>>
    /\ logFile = 1
    /\ logger = 1
    /\ currentDay = FormatDate(0)
    /\ mutex = FreeMutex
    /\ loc = [p \in Procs |-> IdleLoc]
    /\ ncalls = 0
    /\ hist = [closes |-> 0, openFailures |-> 0]
    /\ ctor = [NotConstructed(dir) EXCEPT !.state = "live"]
    /\ merged = NoContext

LogSteps(p, maxFailures) ==
    \/ CheckRotationRLock(p)
    \/ CheckRotation(p)
    \/ RotateLock(p)
    \/ RotateCheck(p)
    \/ RotateOpen(p, maxFailures)
    \/ ReadLogger(p)
    \/ Write(p)

\* concurrent callers of Log and Close on one shared Logger
Init == InitLive({0, SizeLimit}, {InfoLevel})

Next ==
    \/ \E p \in Procs : LogBegin(p, {InfoLevel}, {1}, MaxConcCalls)
    \/ \E p \in Procs : LogSteps(p, 0)
    \/ \E p \in Procs : CloseBegin(p)
    \/ \E p \in Procs : CloseLock(p)
    \/ \E p \in Procs : Close(p)
    \/ Tick

Spec == Init /\ [][Next]_vars

\* concurrent callers of Log and Close, opens that can fail, and a fair
\* scheduler: a caller that can take a step is not left waiting for ever,
\* and sync.RWMutex hands the lock to a goroutine that waits for it
\* (the day changes in the runs without a size limit; in the runs with
\* MaxFileSize > 0 the rotations are those the size brings about)
InitFair == InitLive({0, SizeLimit}, {InfoLevel})

NextFair ==
    \/ \E p \in Procs : LogBegin(p, {InfoLevel}, {1}, MaxConcCalls)
    \/ \E p \in Procs : LogSteps(p, MaxOpenFailures)
    \/ \E p \in Procs : CloseBegin(p)
    \/ \E p \in Procs : CloseLock(p)
    \/ \E p \in Procs : Close(p)
    \/ config.MaxFileSize = 0 /\ Tick

Fairness ==
    \A p \in Procs :
      /\ WF_vars(LogSteps(p, MaxOpenFailures))
      /\ WF_vars(CloseLock(p))
      /\ WF_vars(Close(p))

SpecFair == InitFair /\ [][NextFair]_vars /\ Fairness

\* one caller issuing Log calls one after the other
InitSeq == InitLive({0, SizeLimit}, {InfoLevel})

NextSeq ==
    \/ LogBegin("p1", {DebugLevel, InfoLevel}, {1, SizeLimit}, MaxCalls)
    \/ LogSteps("p1", MaxOpenFailures)
    \/ Tick

SpecSeq == InitSeq /\ [][NextSeq]_vars

\* one caller, every configured level and every level of a call
InitLevel == InitLive({0, SizeLimit}, LogLevel)

NextLevel ==
    \/ LogBegin("p1", LogLevel, {1, SizeLimit}, MaxLevelCalls)
    \/ LogSteps("p1", 0)
    \/ Tick

SpecLevel == InitLevel /\ [][NextLevel]_vars

\* a ContextLogger made by With and used
SpecMerge == InitLive({0}, {InfoLevel}) /\ [][With \/ ContextLog]_vars

(* ---------------------- the constructor's runs ------------------------- *)
\* the constructor is called at the first tick of day 1
CtorTime == TicksPerDay
OldTimes == 0..CtorTime

\* what the log directory can hold when the constructor is called: log
\* files of day 0 and of the day, a file that is no log, a directory whose
\* name ends in ".log"
OldLogNames ==
    {LogFileName(FormatDate(0)), LogFileName(FormatDateTime(0)),
     LogFileName(FormatDateTime(1)), LogFileName(FormatDate(CtorTime))}
NotesName == [pre |-> "notes", d |-> NoStamp, t |-> NoStamp, ext |-> ".txt"]
ArchiveName == [pre |-> "archive", d |-> NoStamp, t |-> NoStamp, ext |-> ".log"]

OldFile(t) == [isDir |-> FALSE, mtime |-> t, content |-> <<>>]
OldDir == [isDir |-> TRUE, mtime |-> 0, content |-> <<>>]

InitialDirs ==
    UNION {[names -> {OldFile(t) : t \in OldTimes}] :
             names \in SUBSET OldLogNames}

InitCtor ==
    /\ config \in [MaxFileSize : {0}, MaxFiles : (-1)..MaxKeep,
                    Level : {InfoLevel}]
    /\ now = CtorTime
    /\ \E logs \in InitialDirs, notes \in BOOLEAN, archive \in BOOLEAN :
         dir = logs @@ (IF notes THEN NotesName :> OldFile(0) ELSE <<>>)
                    @@ (IF archive THEN ArchiveName :> OldDir ELSE <<>>)
    /\ fds = <<>>
    /\ logFile = NilFile
    /\ logger = NilFile
    /\ currentDay = EmptyStamp
    /\ mutex = FreeMutex
    /\ loc = [p \in Procs |-> IdleLoc]
    /\ ncalls = 0
    /\ hist = [closes |-> 0, openFailures |-> 0]
    /\ ctor = NotConstructed(dir)
    /\ merged = NoContext

SpecCtor == InitCtor /\ [][NewLoggerWithConfig]_vars

(* ------------------ a Logger from construction on --------------------- *)
\* a log file that is in the directory before the constructor is called
OldLogName == [pre |-> "archive", d |-> NoStamp, t |-> NoStamp, ext |-> ".log"]

\* the constructor is called with MaxFiles = 1 on a directory that is empty
\* or holds one log file; the Logger it returns is used by one caller
InitLife ==
    /\ config \in [MaxFileSize : {0, SizeLimit}, MaxFiles : {1},
                    Level : {InfoLevel}]
    /\ now = 0
    /\ dir \in {<<>>, OldLogName :> OldFile(0)}
    /\ fds = <<>>
    /\ logFile = NilFile
    /\ logger = NilFile
    /\ currentDay = EmptyStamp
    /\ mutex = FreeMutex
    /\ loc = [p \in Procs |-> IdleLoc]
    /\ ncalls = 0
    /\ hist = [closes |-> 0, openFailures |-> 0]
    /\ ctor = NotConstructed(dir)
    /\ merged = NoContext

NextLife ==
    \/ NewLoggerWithConfig
    \/ LogBegin("p1", {InfoLevel}, {SizeLimit}, MaxCalls)
    \/ LogSteps("p1", 0)
    \/ CloseBegin("p1")
    \/ CloseLock("p1")
    \/ Close("p1")
    \/ Tick

SpecLife == InitLife /\ [][NextLife]_vars

(* ------------------------------ the claims ----------------------------- *)
\* a Log call of caller p has returned
Returned(p) == loc[p].pc = "idle" /\ loc[p].op = "log"

\* how often the record of call `id` stands in the files of the directory
Occurrences(id) ==
    Cardinality({x \in UNION {{<<n, i>> : i \in DOMAIN dir[n].content} :
                                n \in DOMAIN dir} :
                   dir[x[1]].content[x[2]].id = id})

OpenHandles == {h \in DOMAIN fds : fds[h].open}

\* the files of a directory that the retention counts
LogNames(dv) == {n \in DOMAIN dv : ~dv[n].isDir /\ n.ext = ".log"}

\* C1 (SpecSeq): a Log call that is made when the calendar day is no longer
\* the day of the current sink, that returns no error and whose level is
\* emitted, has written its record to a file other than the file of that
\* sink, and this file is app-<day>.log, the plain daily name of a day
\* between the day of the call and the day of its return, also when the old
\* sink had reached MaxFileSize.
C1_DailyRotation ==
    \A p \in Procs :
      (/\ Returned(p)
       /\ loc[p].err = NoErr
       /\ HandlerEnabled(config, loc[p].lvl)
       /\ fds[loc[p].sink0].name.d # loc[p].day0)
      => /\ loc[p].wrote # NilFile
         /\ fds[loc[p].wrote].name # fds[loc[p].sink0].name
         /\ \E d \in loc[p].day0..Day(now) :
              fds[loc[p].wrote].name = LogFileName([d |-> d, t |-> NoStamp])
         /\ \E i \in DOMAIN dir[fds[loc[p].wrote].name].content :
              dir[fds[loc[p].wrote].name].content[i].id = loc[p].id

\* the old sink was a timestamped file that had reached MaxFileSize, and the
\* record went to the plain daily file of the new day
C1_Witness ==
    \E p \in Procs :
      /\ Returned(p)
      /\ loc[p].err = NoErr
      /\ config.MaxFileSize > 0
      /\ loc[p].full0
      /\ fds[loc[p].sink0].name.t # NoStamp
      /\ fds[loc[p].sink0].name.d # loc[p].day0
      /\ loc[p].wrote # NilFile
      /\ fds[loc[p].wrote].name = LogFileName(FormatDate(now))

\* C2 (SpecSeq): with MaxFileSize = N > 0, a Log call made when the current
\* sink is open, is of the day and its file holds >= N bytes, that returns
\* no error on the same day, has replaced the sink, and the name of the new
\* sink's file differs from the name of the file that was current before.
C2_SizeRotation ==
    \A p \in Procs :
      (/\ Returned(p)
       /\ loc[p].err = NoErr
       /\ config.MaxFileSize > 0
       /\ loc[p].open0
       /\ loc[p].full0
       /\ fds[loc[p].sink0].name.d = loc[p].day0
       /\ Day(now) = loc[p].day0)
      => /\ logFile # loc[p].sink0
         /\ fds[logFile].open
         /\ fds[logFile].name # fds[loc[p].sink0].name

\* the daily file had reached MaxFileSize and the call replaced it by a
\* timestamped file of the same day
C2_Witness ==
    \E p \in Procs :
      /\ Returned(p)
      /\ loc[p].err = NoErr
      /\ config.MaxFileSize > 0
      /\ loc[p].open0
      /\ loc[p].full0
      /\ fds[loc[p].sink0].name = LogFileName(FormatDate(now))
      /\ Day(now) = loc[p].day0
      /\ logFile # loc[p].sink0
      /\ fds[logFile].name.t # NoStamp
      /\ fds[logFile].name.d = loc[p].day0

\* C3 (SpecSeq): with MaxFileSize = 0, as long as the day is the day of the
\* construction the handle opened by the constructor is the only one the
\* Logger ever opened and is the current sink; and every handle opened later
\* is a plain daily file of a later day than the one before it (only a day
\* change rotates).
C3_NoSizeRotation ==
    config.MaxFileSize = 0
    => /\ Day(now) = 0 => (Len(fds) = 1 /\ logFile = 1 /\ fds[1].open)
       /\ \A i \in DOMAIN fds : fds[i].name.t = NoStamp
       /\ \A i, j \in DOMAIN fds : i < j => fds[i].name.d < fds[j].name.d

\* several calls returned within the day of the construction, the file has
\* grown beyond SizeLimit and the sink is still the first one
C3_Witness ==
    /\ config.MaxFileSize = 0
    /\ Day(now) = 0
    /\ ncalls >= 2
    /\ \A p \in Procs : loc[p].pc = "idle"
    /\ logFile = 1
    /\ StatSize(dir, fds, 1) > SizeLimit

\* C4 (SpecCtor): when the constructor's cleanupOldLogs ran to its end with
\* MaxFiles = K > 0 (the directory was listed) and every os.Remove it called
\* succeeded, the directory holds at most K .log files (exactly K when it
\* held at least K), the files removed are exactly the .log files that are
\* no longer there, nothing else was removed, and no removed file was
\* modified later than a retained one.
C4_RetentionBound ==
    (/\ ctor.state = "live"
     /\ config.MaxFiles > 0
     /\ ctor.cleanupErr = NoErr
     /\ \A i \in DOMAIN ctor.attempted : ctor.attempted[i] \in ctor.deleted)
    => /\ Cardinality(LogNames(dir)) <= config.MaxFiles
       /\ Cardinality(LogNames(ctor.opened)) >= config.MaxFiles
            => Cardinality(LogNames(dir)) = config.MaxFiles
       /\ DOMAIN ctor.opened \ DOMAIN dir = ctor.deleted
       /\ ctor.deleted = LogNames(ctor.opened) \ LogNames(dir)
       /\ \A n \in DOMAIN dir : dir[n] = ctor.opened[n]
       /\ \A kept \in LogNames(dir), gone \in ctor.deleted :
            ctor.opened[kept].mtime >= ctor.opened[gone].mtime

\* two files were removed, both older than a file that was kept
C4_Witness ==
    /\ ctor.state = "live"
    /\ config.MaxFiles = MaxKeep
    /\ ctor.cleanupErr = NoErr
    /\ Cardinality(ctor.deleted) = 2
    /\ Len(ctor.attempted) = 2
    /\ Cardinality(LogNames(dir)) = MaxKeep
    /\ \E kept \in LogNames(dir) : \A gone \in ctor.deleted :
         ctor.opened[kept].mtime > ctor.opened[gone].mtime

\* C5 (SpecMerge): the field set a leveled method of a ContextLogger
\* forwards to the Logger has exactly the keys of the base fields and of the
\* call-site fields, with the call-site value for every call-site key and
\* the base value for every other key.
C5_MergePrecedence ==
    merged.lvl \in NamedLevels
    => /\ DOMAIN merged.forwarded
            = DOMAIN merged.fields \cup DOMAIN merged.additional
       /\ \A k \in DOMAIN merged.additional :
            merged.forwarded[k] = merged.additional[k]
       /\ \A k \in DOMAIN merged.fields \ DOMAIN merged.additional :
            merged.forwarded[k] = merged.fields[k]

\* with({"service":"api"}).info(x, {"service":"override","req":"1"})
C5_Witness ==
    /\ merged.lvl = InfoLevel
    /\ merged.fields = [k \in {"service"} |-> "api"]
    /\ merged.additional = [k \in {"service", "req"} |->
                              IF k = "service" THEN "override" ELSE "1"]
    /\ merged.forwarded = [k \in {"service", "req"} |->
                             IF k = "service" THEN "override" ELSE "1"]

\* the order Debug < Info < Warn < Error
LevelOrder(level) ==
    CASE level = DebugLevel -> 0
      [] level = InfoLevel  -> 1
      [] level = WarnLevel  -> 2
      [] level = ErrorLevel -> 3

\* C6 (SpecLevel, where no open fails): for a configured minimum m and a
\* call level v among debug, info, warn and error, a Log call that has
\* returned has put exactly one record in the files when v >= m and none
\* when v < m.
C6_LevelFiltering ==
    \A p \in Procs :
      (/\ Returned(p)
       /\ config.Level \in NamedLevels
       /\ loc[p].lvl \in NamedLevels)
      => /\ loc[p].err = NoErr
         /\ Occurrences(loc[p].id)
              = IF LevelOrder(loc[p].lvl) >= LevelOrder(config.Level)
                THEN 1 ELSE 0

\* with m = warn a call at error has emitted its record
C6_Witness ==
    \E p \in Procs :
      /\ Returned(p)
      /\ config.Level = WarnLevel
      /\ loc[p].lvl = ErrorLevel
      /\ Occurrences(loc[p].id) = 1

\* C7 (Spec, where no open fails and every call is at an emitted level):
\* when every caller has returned and Close was never called, each of the
\* Log calls made has exactly one record in the files.
C7_NoLostRecord ==
    (/\ \A p \in Procs : loc[p].pc = "idle"
     /\ hist.closes = 0)
    => \A id \in 1..ncalls : Occurrences(id) = 1

\* C8 (Spec): at most one handle opened by the Logger is open, an open
\* handle is the one l.logFile holds, and while rotateLogFile is about to
\* open the new file the previous handle is already closed.
C8_OneLiveSink ==
    /\ Cardinality(OpenHandles) <= 1
    /\ \A h \in OpenHandles : h = logFile
    /\ \A p \in Procs : loc[p].pc = "rotateOpen" => OpenHandles = {}

\* a rotation has replaced the sink while another caller is about to write
C8_Witness ==
    /\ Len(fds) >= 2
    /\ OpenHandles = {logFile}
    /\ \E p \in Procs : loc[p].pc = "write"

\* C9 (SpecCtor): when os.MkdirAll or the open of the initial file fails,
\* the constructor returns an error and no Logger (no handle is open), it
\* calls os.Remove on nothing and the directory is as it was; otherwise it
\* returns a Logger.
C9_ConstructionFatal ==
    ctor.state # "new"
    => /\ (ctor.mkdirOk /\ ctor.openOk) <=> ctor.state = "live"
       /\ ctor.state = "failed"
            => /\ ctor.err # NoErr
               /\ logFile = NilFile
               /\ logger = NilFile
               /\ OpenHandles = {}
               /\ ctor.attempted = <<>>
               /\ ctor.deleted = {}
               /\ dir = ctor.initial

\* the open failed on a directory that held more .log files than MaxFiles
C9_Witness ==
    /\ ctor.state = "failed"
    /\ ctor.err = "open"
    /\ config.MaxFiles > 0
    /\ Cardinality(LogNames(dir)) > config.MaxFiles

\* C10 (Spec): a Log call made after Close has returned returns an error
\* and writes no record.
C10_LogAfterCloseFails ==
    \A p \in Procs :
      (Returned(p) /\ loc[p].closed0)
      => /\ loc[p].err # NoErr
         /\ loc[p].wrote = NilFile
         /\ Occurrences(loc[p].id) = 0

\* C11 (SpecSeq): the step of rotateLogFile in which the open of the new
\* file fails ends the Log call with the error and changes no file; and the
\* record of a call that returned this error stands in no file, neither the
\* old nor a new one.
C11_RotationFailureDrops ==
    /\ [](\A p \in Procs :
            (Returned(p) /\ loc[p].err = "open")
            => /\ loc[p].wrote = NilFile
               /\ Occurrences(loc[p].id) = 0)
    /\ [][hist'.openFailures > hist.openFailures
          => /\ dir' = dir
             /\ \E p \in Procs :
                  /\ loc[p].pc = "rotateOpen"
                  /\ loc'[p].pc = "idle"
                  /\ loc'[p].op = "log"
                  /\ loc'[p].err = "open"]_vars

\* a call at an emitted level found the sink full, the open of the
\* timestamped file failed and the call returned the error
C11_Witness ==
    \E p \in Procs :
      /\ Returned(p)
      /\ loc[p].err = "open"
      /\ loc[p].full0
      /\ HandlerEnabled(config, loc[p].lvl)
      /\ hist.openFailures = 1
      /\ Occurrences(loc[p].id) = 0

\* C12 (SpecSeq): a Log call made after a call whose rotation failed to
\* open the new file (l.logFile is the handle that rotation closed) and
\* returning no error has rotated again: the sink is a new handle, and the
\* record of a call at an emitted level stands once in the file of that
\* handle.
C12_RotationRetried ==
    \A p \in Procs :
      (/\ Returned(p)
       /\ loc[p].err = NoErr
       /\ hist.openFailures > 0
       /\ ~loc[p].open0)
      => /\ logFile # loc[p].sink0
         /\ fds[logFile].open
         /\ HandlerEnabled(config, loc[p].lvl)
              => /\ loc[p].wrote = logFile
                 /\ Occurrences(loc[p].id) = 1

\* C13 (SpecSeq, where Close is never called): in every state the handle
\* l.logFile holds is open, and a Log call that returned the error of a
\* failed open has left the sink it found open and in place.
C13_AlwaysOpenHandle ==
    /\ logFile # NilFile
    /\ fds[logFile].open
    /\ \A p \in Procs :
         (Returned(p) /\ loc[p].err = "open" /\ loc[p].open0)
         => logFile = loc[p].sink0

\* a rotation rule of checkRotation applies to the sink of handle h: it is
\* not of the day, or MaxFileSize > 0 and its file has reached MaxFileSize
RuleApplies(h) ==
    \/ fds[h].name.d # Day(now)
    \/ /\ config.MaxFileSize > 0
       /\ StatSize(dir, fds, h) >= config.MaxFileSize

\* C14 (Spec, before Close): a caller whose checkRotation found a rotation
\* needed and who, under the exclusive lock, goes on to replace the sink
\* replaces the sink it made the observation on; when another caller has
\* replaced that sink in between, it replaces the new sink only if a
\* rotation rule applies to the new sink as well.
C14_NoDuplicateRotation ==
    \A p \in Procs :
      (/\ loc[p].pc = "rotateOpen"
       /\ hist.closes = 0
       /\ loc[p].seen # logFile)
      => RuleApplies(logFile)

\* C15 (SpecSeq): a Log call made when the sink is open and of the day,
\* and either MaxFileSize = 0 or the sink's file is smaller than MaxFileSize,
\* that returns on that day has left the sink as it was: l.logFile is the
\* same handle and it is open, whether the sink's file has the daily or the
\* timestamped name.
C15_NoRotationWithoutRule ==
    \A p \in Procs :
      (/\ Returned(p)
       /\ loc[p].open0
       /\ ~loc[p].full0
       /\ fds[loc[p].sink0].name.d = loc[p].day0
       /\ Day(now) = loc[p].day0)
      => /\ logFile = loc[p].sink0
         /\ fds[logFile].open

\* C16 (Spec): whenever rotateLogFile goes on to open a file, the stamp it chose
\* is the date, or the date and time, it read from the clock, and the date
\* and time only when MaxFileSize > 0 and the current sink is of that date
\* and its file has reached MaxFileSize; and the file it then opens is
\* app-<stamp>.log.
C16_FileNaming ==
    [][\A p \in Procs :
         /\ (loc[p].pc = "rotateCheck" /\ loc'[p].pc = "rotateOpen")
            => /\ loc'[p].to \in {FormatDate(now), FormatDateTime(now)}
               /\ loc'[p].to = FormatDateTime(now)
                    => /\ config.MaxFileSize > 0
                       /\ logFile # NilFile
                       /\ fds[logFile].name.d = Day(now)
                       /\ StatSize(dir, fds, logFile) >= config.MaxFileSize
         /\ (loc[p].pc = "rotateOpen" /\ Len(fds') > Len(fds))
            => /\ fds'[Len(fds')].name =
                    [pre |-> "app", d |-> loc[p].to.d, t |-> loc[p].to.t,
                     ext |-> ".log"]
               /\ fds'[Len(fds')].name \in DOMAIN dir'
               /\ logFile' = Len(fds')]_vars

\* s is a prefix of t
IsPrefix(s, t) == Len(s) <= Len(t) /\ \A i \in DOMAIN s : s[i] = t[i]

\* C17 (SpecSeq): no step of a Log call, the (re)opening of a file by a
\* rotation included, removes a file or changes what a file already holds:
\* the content before the step is a prefix of the content after it.
C17_AppendOnly ==
    [][\A n \in DOMAIN dir :
         /\ n \in DOMAIN dir'
         /\ IsPrefix(dir[n].content, dir'[n].content)]_vars

\* two rotations gave the same name: the file was opened, rotated away from
\* and opened again, and holds what it held before with a record written
\* through the later handle behind it
C17_Witness ==
    \E p \in Procs : \E i \in DOMAIN fds :
      /\ Returned(p)
      /\ loc[p].wrote # NilFile
      /\ i < loc[p].wrote
      /\ fds[i].name = fds[loc[p].wrote].name
      /\ LET c == dir[fds[i].name].content IN
           /\ Len(c) >= 2
           /\ c[1] = PreRecord
           /\ c[Len(c)].id = loc[p].id

\* C18 (SpecLife): the step of the constructor leaves the directory as
\* cleanupOldLogs left it, run on the directory that holds the initial file;
\* after it no step of Log, of a rotation or of Close removes a file or
\* changes what the constructor's cleanup is recorded to have done.
C18_CleanupOnlyAtConstruction ==
    [][/\ ctor.state = "new" /\ ctor'.state = "live"
          => /\ fds'[logFile'].name \in DOMAIN ctor'.opened
             /\ DOMAIN dir' = DOMAIN ctor'.opened \ ctor'.deleted
       /\ ctor.state # "new"
          => /\ ctor' = ctor
             /\ DOMAIN dir \subseteq DOMAIN dir']_vars

\* the constructor's cleanup removed the old log file to keep MaxFiles = 1,
\* and rotations have since brought the directory to more .log files than
\* MaxFiles
C18_Witness ==
    /\ ctor.state = "live"
    /\ ctor.cleanupErr = NoErr
    /\ ctor.deleted = {OldLogName}
    /\ Len(fds) >= 2
    /\ Cardinality(LogNames(dir)) > config.MaxFiles

\* C19 (SpecCtor): when os.MkdirAll and the open of the initial file
\* succeed the constructor returns a Logger whose sink is open, whatever
\* os.ReadDir and os.Remove do; and when the directory was listed with
\* MaxFiles = K > 0, os.Remove was called once on each of the files in
\* excess of K, also when some of these calls fail, and the files that are
\* gone are those it removed.
C19_BestEffortCleanup ==
    (ctor.state # "new" /\ ctor.mkdirOk /\ ctor.openOk)
    => /\ ctor.state = "live"
       /\ ctor.err = NoErr
       /\ logFile # NilFile
       /\ fds[logFile].open
       /\ logger = logFile
       /\ (config.MaxFiles > 0 /\ ctor.cleanupErr = NoErr)
            => LET n == Cardinality(LogNames(ctor.opened)) IN
               /\ Len(ctor.attempted)
                    = IF n > config.MaxFiles THEN n - config.MaxFiles ELSE 0
               /\ \A i, j \in DOMAIN ctor.attempted :
                    i # j => ctor.attempted[i] # ctor.attempted[j]
               /\ Range(ctor.attempted) \subseteq LogNames(ctor.opened)
               /\ ctor.deleted \subseteq Range(ctor.attempted)
               /\ DOMAIN dir = DOMAIN ctor.opened \ ctor.deleted
       /\ ctor.cleanupErr # NoErr
            => ctor.attempted = <<>> /\ dir = ctor.opened

\* the first os.Remove failed, the second one was made and succeeded, and
\* the constructor returned a Logger
C19_Witness ==
    /\ ctor.state = "live"
    /\ Len(ctor.attempted) = 2
    /\ ctor.attempted[1] \notin ctor.deleted
    /\ ctor.attempted[1] \in DOMAIN dir
    /\ ctor.attempted[2] \in ctor.deleted
    /\ fds[logFile].open

\* C20 (SpecCtor): when the constructor's cleanupOldLogs listed the
\* directory, os.Remove was called on the excess files in the order of
\* modification time with ties in the order of the file names; so of two
\* .log files with the same modification time of which it removed one and
\* kept the other, the removed one has the smaller name.
C20_TiesByName ==
    (/\ ctor.state = "live"
     /\ config.MaxFiles > 0
     /\ ctor.cleanupErr = NoErr)
    => /\ \A i, j \in DOMAIN ctor.attempted :
            (/\ i < j
             /\ ctor.opened[ctor.attempted[i]].mtime
                  = ctor.opened[ctor.attempted[j]].mtime)
            => NameKey(ctor.attempted[i]) < NameKey(ctor.attempted[j])
       /\ \A gone \in Range(ctor.attempted) :
          \A kept \in LogNames(ctor.opened) \ Range(ctor.attempted) :
            ctor.opened[gone].mtime = ctor.opened[kept].mtime
            => NameKey(gone) < NameKey(kept)

\* C21 (SpecCtor): the constructor's cleanupOldLogs calls os.Remove only on
\* entries that are no directory and whose name ends in ".log"; every other
\* entry is left as it was and is not counted: with MaxFiles = K > 0 and
\* the directory listed, the number of calls is the number of such files
\* above K; and with MaxFiles <= 0 it calls os.Remove on nothing and the
\* directory is as it was after the initial open.
C21_ScanScope ==
    ctor.state = "live"
    => /\ \A i \in DOMAIN ctor.attempted :
            /\ ctor.attempted[i] \in DOMAIN ctor.opened
            /\ ~ctor.opened[ctor.attempted[i]].isDir
            /\ Ext(ctor.attempted[i]) = ".log"
       /\ ctor.deleted \subseteq LogNames(ctor.opened)
       /\ \A n \in DOMAIN ctor.opened \ LogNames(ctor.opened) :
            n \in DOMAIN dir /\ dir[n] = ctor.opened[n]
       /\ (config.MaxFiles > 0 /\ ctor.cleanupErr = NoErr)
            => Len(ctor.attempted)
                 = IF Cardinality(LogNames(ctor.opened)) > config.MaxFiles
                   THEN Cardinality(LogNames(ctor.opened)) - config.MaxFiles
                   ELSE 0
       /\ config.MaxFiles <= 0
            => /\ ctor.attempted = <<>>
               /\ ctor.deleted = {}
               /\ dir = ctor.opened

\* the directory held a file that is no log and a directory named
\* "archive.log", both older than a .log file that was removed; they are
\* still there, and only the one .log file above MaxFiles was removed
C21_Witness ==
    /\ ctor.state = "live"
    /\ config.MaxFiles > 0
    /\ NotesName \in DOMAIN dir
    /\ ArchiveName \in DOMAIN dir
    /\ Cardinality(LogNames(ctor.opened)) = config.MaxFiles + 1
    /\ Cardinality(ctor.deleted) = 1
    /\ \E gone \in ctor.deleted :
         ctor.opened[gone].mtime > ctor.opened[NotesName].mtime

\* C22 (Spec, before Close): what holding the shared lock from the read of
\* l.logger to the write would give: while a caller is about to write its
\* record, the handle it read is still the current sink and is open (no
\* rotation has closed or replaced it in between).
C22_WriteUnderSharedLock ==
    \A p \in Procs :
      (loc[p].pc = "write" /\ hist.closes = 0)
      => /\ loc[p].lg = logger
         /\ loc[p].lg # NilFile => fds[loc[p].lg].open

\* C23 (SpecLife, one caller): once Close has returned, the Logger holds no
\* open handle, whatever Log calls are made afterwards and also when the
\* day changes.
C23_CloseIsFinal ==
    hist.closes > 0 => OpenHandles = {}

\* C24 (SpecFair): a caller holds the shared lock only inside
\* checkRotation and the exclusive lock only inside rotateLogFile and Close;
\* so it holds no lock while it waits for the exclusive lock and none when
\* its call has returned, with or without an error; and every Log and Close
\* call that was entered returns.
C24_DeadlockFreedom ==
    /\ [](\A p \in Procs :
            /\ p \in mutex.r => loc[p].pc = "needsRotation"
            /\ mutex.w = p => loc[p].pc \in {"rotateCheck", "rotateOpen", "close"}
            /\ loc[p].pc \in {"rotateLock", "closeLock"}
                 => p \notin mutex.r /\ mutex.w # p
            /\ loc[p].pc = "idle" => p \notin mutex.r /\ mutex.w # p)
    /\ \A p \in Procs : (loc[p].pc # "idle") ~> (loc[p].pc = "idle")

\* one caller holds the exclusive lock in rotateLogFile while the other
\* waits for it, after an open has failed in an earlier call
C24_Witness ==
    \E p, q \in Procs :
      /\ mutex.w = p
      /\ loc[p].pc = "rotateOpen"
      /\ loc[q].pc \in {"rotateLock", "closeLock"}
      /\ hist.openFailures > 0

\* C25 (SpecCtor): when the constructor returns a Logger with
\* MaxFiles >= 1, the file of the sink it opened is still in the directory:
\* cleanupOldLogs has called os.Remove on other files only.
C25_CleanupSparesSink ==
    (ctor.state = "live" /\ config.MaxFiles >= 1)
    => /\ fds[logFile].name \in DOMAIN dir
       /\ fds[logFile].name \notin Range(ctor.attempted)

====
